---- MODULE Spec2Model ----
(***************************************************************************)
(* Patient email plugin: the per-patient email profile (PatientEmail), its *)
(* send policy (PatientEmail.send_email and the operations derived from    *)
(* it), the methods added to Patient, and the request handlers and page    *)
(* hooks that load, create and edit profiles.                              *)
(*                                                                         *)
(* Python values are encoded as follows.  An optional value is a sequence  *)
(* of length at most one: None is <<>> and a present value v is <<v>>.     *)
(* Short strings (addresses, subjects, template names) are TLA+ strings.   *)
(* Message bodies are sequences of tokens, each token a piece of text or a *)
(* markup tag, so that stripping markup is computed.  A dict is a function *)
(* from its keys to optional values.                                       *)
(***************************************************************************)
EXTENDS Integers, Sequences, FiniteSets, TLC

VARIABLES
    rows,   \* table patient_email_profiles, in insertion order
    clock,  \* the wall clock read by timezone.now()
    shell,  \* a caller holding a loaded PatientEmail instance (model API)
    req,    \* the request handlers and Patient-level calls in progress
    templates  \* table patient_email_templates, in insertion order

vars == <<rows, clock, shell, req, templates>>

\* ------------------------------------------------------------------ bounds

\* the clock stops here; every model-level call and every request that
\* arrives takes one tick
MaxClock == 3

\* the longest template name entered
MaxNameLen == 2

\* ------------------------------------------------------------ Python values

None == <<>>
Some(v) == <<v>>

\* truthiness of an optional short string: None and "" are falsy
TruthyStr(o) == o # None /\ o[1] # ""

\* truthiness of an optional message body: None and the empty body are falsy
TruthyText(o) == o # None /\ o[1] # <<>>

\* Python `a or b` on optional short strings
PyOr(a, b) == IF TruthyStr(a) THEN a ELSE b

\* ------------------------------------------------------------ PatientEmail

FieldNames ==
    {"id", "patient", "organization", "email", "secondary_email",
     "email_verified", "email_notifications_enabled", "preferred_email",
     "email_bounced", "last_email_sent"}

\* the columns other than the primary key
Columns == FieldNames \ {"id"}

\* field defaults of a new PatientEmail(patient=..., organization=...)
NewPatientEmail(pk, patient, organization) ==
    [id |-> pk, patient |-> patient, organization |-> organization,
     email |-> None, secondary_email |-> None,
     email_verified |-> FALSE, email_notifications_enabled |-> TRUE,
     preferred_email |-> "primary", email_bounced |-> FALSE,
     last_email_sent |-> None]

get_preferred_email_primary_first(self) ==
    PyOr(self.email, self.secondary_email)

get_preferred_email(self) ==
    IF self.preferred_email = "secondary" /\ TruthyStr(self.secondary_email)
    THEN self.secondary_email
    ELSE PyOr(self.email, self.secondary_email)

\* ----------------------------------------------------- outside collaborators

MarkupTags == {"<p>", "</p>", "<b>", "</b>", "<br>"}

\* django.utils.html.strip_tags: the text with every markup tag removed
strip_tags(value) == SelectSeq(value, LAMBDA tok : tok \notin MarkupTags)

\* what render_to_string may return for an email template
RenderedHtml == { <<"<p>", "Hello", "</p>">>, <<"<br>">> }

\* One run of the collaborators.  Reading self.patient queries the patient
\* of a profile fetched from the table: every such query succeeds ("ok"),
\* the first one raises and a later one succeeds ("once"), or every one
\* raises ("always"); a read that succeeded is cached.  The renderer raises
\* or returns html; the transport raises, accepts no recipient or accepts
\* the one recipient; saving the row raises or succeeds.  Outcomes that the
\* code cannot reach after an earlier fault are fixed, so that each run is
\* listed once: a failing patient read at line 125 ends the try block
\* before the renderer is called, and one that fails only once is told
\* from one that always fails at that line alone.
Envs ==
    { e \in [patient_read : {"ok", "once", "always"}, render_raises : BOOLEAN,
             html : RenderedHtml, transport : {"raise", "zero", "one"},
             save_raises : BOOLEAN] :
        /\ e.patient_read # "ok" =>
              /\ ~e.render_raises
              /\ e.html = <<"<br>">>
              /\ e.transport # "zero"
        /\ e.patient_read = "once" =>
              /\ e.transport = "one"
              /\ ~e.save_raises
        /\ e.render_raises =>
              /\ e.html = <<"<br>">>
              /\ e.transport = "one"
              /\ ~e.save_raises
        /\ e.transport # "one" => ~e.save_raises }

\* the runs that differ in something a request handler can tell apart
HandlerEnvs == { e \in Envs : e.html = <<"<br>">> }

\* send_mail's return value: the number of messages delivered
send_mail(env) == IF env.transport = "one" THEN 1 ELSE 0

\* Model.save(update_fields=fields) of instance self: an UPDATE of those
\* columns of the row with self's primary key
SaveAllColumns(table, self, fields) ==
    [i \in DOMAIN table |->
        IF table[i].id = self.id
        THEN [f \in FieldNames |-> IF f \in Columns THEN self[f] ELSE table[i][f]]
        ELSE table[i]]

Save(table, self, fields) ==
    [i \in DOMAIN table |->
        IF table[i].id = self.id
        THEN [f \in FieldNames |-> IF f \in fields THEN self[f] ELSE table[i][f]]
        ELSE table[i]]

\* ------------------------------------------------- PatientEmail.send_email

\* context["patient"] = self.patient; context["email_profile"] = self
AugmentContext(self, context) ==
    [k \in (DOMAIN context) \cup {"patient", "email_profile"} |->
        IF k = "patient" THEN Some(self.patient)
        ELSE IF k = "email_profile" THEN Some(self.id)
        ELSE context[k]]

\* the outcome of a call: the value returned (ret), None when an exception
\* left the call (raised), the instance afterwards, the columns saved, the calls
\* made to the renderer and to the transport, and whether the diagnostic
\* line was printed
Outcome(ret, raised, self, saved, renders, mails, printed) ==
    [ret |-> ret, raised |-> raised, self |-> self, saved |-> saved,
     renders |-> renders, mails |-> mails, printed |-> printed]

\* lines 111-119: the eligibility gate; TRUE when the send is skipped
ShouldSkipIgnoringBounce(self) ==
    \/ ~self.email_notifications_enabled
    \/ ~TruthyStr(get_preferred_email(self))

ShouldSkip(self) ==
    \/ ~self.email_notifications_enabled
    \/ self.email_bounced
    \/ ~TruthyStr(get_preferred_email(self))

\* lines 123-133: when a template name and a context are given, self.patient
\* is read for the context (which may raise) and the template is rendered;
\* the rendered html replaces html_message, and the message defaults to the
\* rendered html without its markup
RenderContentKeepingMarkup(self, message, html_message, template_name, context, env) ==
    IF TruthyStr(template_name) /\ context # None
    THEN IF env.patient_read # "ok"
         THEN [renders |-> <<>>, raised |-> TRUE,
               html_message |-> html_message, message |-> message]
         ELSE
         [renders |-> << [template_name |-> template_name[1],
                          context |-> AugmentContext(self, context[1])] >>,
          raised |-> env.render_raises,
          html_message |-> Some(env.html),
          message |-> IF ~TruthyText(message) THEN Some(env.html) ELSE message]
    ELSE [renders |-> <<>>, raised |-> FALSE,
          html_message |-> html_message, message |-> message]

RenderContent(self, message, html_message, template_name, context, env) ==
    IF TruthyStr(template_name) /\ context # None
    THEN IF env.patient_read # "ok"
         THEN [renders |-> <<>>, raised |-> TRUE,
               html_message |-> html_message, message |-> message]
         ELSE
         [renders |-> << [template_name |-> template_name[1],
                          context |-> AugmentContext(self, context[1])] >>,
          raised |-> env.render_raises,
          html_message |-> Some(env.html),
          message |-> IF ~TruthyText(message)
                      THEN Some(strip_tags(env.html)) ELSE message]
    ELSE [renders |-> <<>>, raised |-> FALSE,
          html_message |-> html_message, message |-> message]

\* lines 136-143: the arguments handed to send_mail
MailArgs(subject, message, from_email, email_address, html_message) ==
    [subject |-> subject,
     message |-> IF TruthyText(message) THEN message[1] ELSE <<>>,
     from_email |-> from_email,
     recipient_list |-> <<email_address>>,
     html_message |-> html_message]

\* lines 154-156: an exception raised inside the try block is printed and
\* turned into a False result; the printed line reads self.patient.pk, which
\* queries the patient again unless line 125 has read it (queried is TRUE
\* when line 125 has run).  When that read raises, its exception leaves
\* send_email instead
ExceptException(self, renders, mails, env, queried) ==
    IF \/ env.patient_read = "always"
       \/ env.patient_read = "once" /\ ~queried
    THEN Outcome(None, TRUE, self, {}, renders, mails, FALSE)
    ELSE Outcome(Some(FALSE), FALSE, self, {}, renders, mails, TRUE)

send_email(self, subject, message, html_message, template_name, context, from_email, now, env) ==
    LET content == RenderContent(self, message, html_message, template_name,
                                 context, env)
        mail == MailArgs(subject, content.message, from_email,
                         get_preferred_email(self)[1], content.html_message)
        result == send_mail(env)
        queried == TruthyStr(template_name) /\ context # None
        stamped == [self EXCEPT !.last_email_sent = Some(now)]
    IN  IF ShouldSkip(self)
        THEN Outcome(Some(FALSE), FALSE, self, {}, <<>>, <<>>, FALSE)
        ELSE IF content.raised
        THEN ExceptException(self, content.renders, <<>>, env, queried)
        ELSE IF env.transport = "raise"
        THEN ExceptException(self, content.renders, <<mail>>, env, queried)
        ELSE IF result # 0
        THEN IF env.save_raises
             THEN ExceptException(stamped, content.renders, <<mail>>, env,
                                  queried)
             ELSE Outcome(Some(TRUE), FALSE, stamped, {"last_email_sent"},
                          content.renders, <<mail>>, FALSE)
        ELSE Outcome(Some(FALSE), FALSE, self, {}, content.renders, <<mail>>,
                     FALSE)

\* lines 158-169
send_appointment_reminder(self, appointment_date, appointment_time, now, env) ==
    send_email(self, "Appointment Reminder", None, None,
               Some("patient_email_plugin/emails/appointment_reminder.html"),
               Some([appointment_date |-> appointment_date,
                     appointment_time |-> appointment_time]),
               None, now, env)

\* lines 171-177
send_welcome_email(self, now, env) ==
    send_email(self, "Welcome to our healthcare system", None, None,
               Some("patient_email_plugin/emails/welcome.html"),
               Some(<<>>), None, now, env)

\* lines 179-189
send_care_plan_update(self, care_plan_details, now, env) ==
    send_email(self, "Care Plan Update", None, None,
               Some("patient_email_plugin/emails/care_plan_update.html"),
               Some([care_plan_details |-> care_plan_details]),
               None, now, env)

\* ------------------------------------------------------- PatientEmailForm

\* Meta.fields: the columns the form binds
FormFields ==
    {"email", "secondary_email", "email_notifications_enabled", "preferred_email"}

clean_without_primary_check(cleaned_data) ==
    IF /\ cleaned_data.email_notifications_enabled
       /\ ~TruthyStr(cleaned_data.email)
       /\ ~TruthyStr(cleaned_data.secondary_email)
    THEN Some("At least one email address is required when email notifications are enabled.")
    ELSE IF /\ cleaned_data.preferred_email = "secondary"
            /\ ~TruthyStr(cleaned_data.secondary_email)
    THEN Some("Secondary email address is required when it's set as preferred.")
    ELSE None

\* PatientEmailForm.clean: the message of the ValidationError raised, if any
clean(cleaned_data) ==
    IF /\ cleaned_data.email_notifications_enabled
       /\ ~TruthyStr(cleaned_data.email)
       /\ ~TruthyStr(cleaned_data.secondary_email)
    THEN Some("At least one email address is required when email notifications are enabled.")
    ELSE IF /\ cleaned_data.preferred_email = "secondary"
            /\ ~TruthyStr(cleaned_data.secondary_email)
    THEN Some("Secondary email address is required when it's set as preferred.")
    ELSE IF /\ cleaned_data.preferred_email = "primary"
            /\ ~TruthyStr(cleaned_data.email)
    THEN Some("Primary email address is required when it's set as preferred.")
    ELSE None

is_valid(cleaned_data) == clean(cleaned_data) = None

\* the instance after the form has copied its cleaned fields onto it
construct_instance(instance, cleaned_data) ==
    [f \in FieldNames |->
        IF f \in FormFields THEN cleaned_data[f] ELSE instance[f]]

\* form.save(): the instance is saved whole, with no update_fields
form_save(table, instance, cleaned_data) ==
    Save(table, construct_instance(instance, cleaned_data), Columns)

\* --------------------------------------------------------------- storage

\* PatientEmail.objects.filter(patient=p): the rows of patient p
RowsOf(table, p) == SelectSeq(table, LAMBDA r : r.patient = p)

\* the row with primary key pk
RowById(table, pk) == CHOOSE r \in {table[i] : i \in DOMAIN table} : r.id = pk

\* ------------------------------------------------ a caller of the model API

\* the arguments a direct caller of send_email passes
Subjects == {"Hi"}
Messages == {None, Some(<<>>), Some(<<"Body">>)}
HtmlMessages == {None, Some(<<"<b>", "Raw", "</b>">>)}
TemplateNames == {None, Some("custom.html")}
Contexts == {None, Some(<<>>), Some([patient |-> Some(7)])}
FromEmails == {None, Some("clinic@x.com")}

AppointmentDates == {Some("2024-01-15")}
AppointmentTimes == {None, Some("10:30")}
CarePlanDetails == {Some("new exercises")}

\* the profiles a caller may have loaded
Emails == {None, Some(""), Some("a@x.com")}
SecondaryEmails == {None, Some(""), Some("b@x.com")}

LoadedProfiles ==
    { [NewPatientEmail(1, 1, 1) EXCEPT
          !.email = e, !.secondary_email = s, !.preferred_email = p,
          !.email_notifications_enabled = n, !.email_bounced = b] :
        e \in Emails, s \in SecondaryEmails, p \in {"primary", "secondary"},
        n \in BOOLEAN, b \in BOOLEAN }

\* what another request submits to the edit form meanwhile
ConcurrentForms ==
    { [email |-> Some("new@x.com"), secondary_email |-> None,
       email_notifications_enabled |-> FALSE, preferred_email |-> "primary"] }

NoCall == [op |-> "none"]

\* the record kept of a call: what was passed and the state it started
\* from and, once it has returned, the run of the collaborators it met, the
\* table its save met (stored) and its outcome
Called(op, args) ==
    [op |-> op, args |-> args, env |-> None, start |-> clock,
     before |-> shell.inst, stored_before |-> rows, stored |-> <<>>,
     out |-> None]

\* the caller enters the call with the instance it holds; the call then
\* waits in the renderer and the transport, where other requests run
Calls(op, args) ==
    /\ shell' = [pc |-> "sending", inst |-> shell.inst,
                 call |-> Called(op, args)]
    /\ UNCHANGED <<rows, clock, req, templates>>

\* profile.send_email(subject, message, html_message, template_name, context, from_email)
CallSendEmail ==
    /\ shell.pc = "idle"
    /\ clock < MaxClock
    /\ \E subject \in Subjects, message \in Messages,
          html_message \in HtmlMessages, template_name \in TemplateNames,
          context \in Contexts, from_email \in FromEmails :
          Calls("send_email",
                [subject |-> subject, message |-> message,
                 html_message |-> html_message,
                 template_name |-> template_name, context |-> context,
                 from_email |-> from_email])

\* profile.send_appointment_reminder(appointment_date, appointment_time)
CallSendAppointmentReminder ==
    /\ shell.pc = "idle"
    /\ clock < MaxClock
    /\ \E d \in AppointmentDates, t \in AppointmentTimes :
          Calls("send_appointment_reminder",
                [appointment_date |-> d, appointment_time |-> t])

\* profile.send_welcome_email()
CallSendWelcomeEmail ==
    /\ shell.pc = "idle"
    /\ clock < MaxClock
    /\ Calls("send_welcome_email", <<>>)

\* profile.send_care_plan_update(care_plan_details)
CallSendCarePlanUpdate ==
    /\ shell.pc = "idle"
    /\ clock < MaxClock
    /\ \E c \in CarePlanDetails :
          Calls("send_care_plan_update", [care_plan_details |-> c])

\* what the call in progress comes to on the instance the caller holds, in
\* a run env of the collaborators
CallOutcome(c, self, now, env) ==
    IF c.op = "send_email"
    THEN send_email(self, c.args.subject, c.args.message, c.args.html_message,
                    c.args.template_name, c.args.context, c.args.from_email,
                    now, env)
    ELSE IF c.op = "send_appointment_reminder"
    THEN send_appointment_reminder(self, c.args.appointment_date,
                                   c.args.appointment_time, now, env)
    ELSE IF c.op = "send_welcome_email"
    THEN send_welcome_email(self, now, env)
    ELSE send_care_plan_update(self, c.args.care_plan_details, now, env)

\* the call returns: the instance carries the call's assignments, and the
\* save of line 150 updates the table as it stands by then, with whatever
\* other requests wrote since the call began
Returns ==
    /\ shell.pc = "sending"
    /\ \E env \in Envs :
        \E out \in {CallOutcome(shell.call, shell.inst, clock + 1, env)} :
          /\ shell' = [pc |-> "returned", inst |-> out.self,
                       call |-> [shell.call EXCEPT !.env = env,
                                                   !.stored = rows,
                                                   !.out = out]]
          /\ rows' = IF out.saved = {} THEN rows
                     ELSE Save(rows, out.self, out.saved)
    /\ clock' = clock + 1
    /\ UNCHANGED <<req, templates>>

\* the caller takes the returned value and goes on with the same instance
Proceed ==
    /\ shell.pc = "returned"
    /\ shell' = [shell EXCEPT !.pc = "idle", !.call = NoCall]
    /\ UNCHANGED <<rows, clock, req, templates>>

\* ------------------------------------------------ patients, users, requests

\* the workers that handle requests concurrently
Reqs == {1, 2}

IdleReqs == [r \in Reqs |-> [pc |-> "idle"]]

\* the patients on file and the organization each belongs to
Patients == {1}
PatientOrganization(p) == 1

CanManage == "patient_email_plugin.can_manage_patient_emails"
CanSend == "patient_email_plugin.can_send_patient_emails"

\* the acting users: staff of the patient's organization with both
\* permissions and with none, and staff of another organization
Users ==
    { [perms |-> {CanManage, CanSend}, organization |-> 1],
      [perms |-> {}, organization |-> 1],
      [perms |-> {CanManage, CanSend}, organization |-> 2] }

has_perm(user, perm) == perm \in user.perms

\* get_object_or_404(Patient, pk=patient_id, organization=user.organization)
PatientVisible(user, p) ==
    p \in Patients /\ PatientOrganization(p) = user.organization

\* what is posted to the profile edit form
PostedForms ==
    { [email |-> Some("a@x.com"), secondary_email |-> None,
       email_notifications_enabled |-> TRUE, preferred_email |-> "primary"],
      [email |-> None, secondary_email |-> Some("b@x.com"),
       email_notifications_enabled |-> FALSE, preferred_email |-> "secondary"],
      [email |-> None, secondary_email |-> None,
       email_notifications_enabled |-> TRUE, preferred_email |-> "primary"],
      [email |-> Some("a@x.com"), secondary_email |-> None,
       email_notifications_enabled |-> FALSE, preferred_email |-> "secondary"],
      [email |-> None, secondary_email |-> Some("b@x.com"),
       email_notifications_enabled |-> TRUE, preferred_email |-> "primary"] }

\* what is posted to the send form: subject, message and html_message
PostedSends ==
    { [subject |-> "Hi", message |-> <<"Body">>, html_message |-> <<>>],
      [subject |-> "", message |-> <<"Body">>, html_message |-> <<>>],
      [subject |-> "Hi", message |-> <<>>, html_message |-> <<>>] }

\* SendEmailForm.is_valid(): subject and message are required
SendEmailForm_is_valid(data) ==
    data.subject # "" /\ data.message # <<>>

\* patient.get_full_name(), as the flash message of the send view shows it
get_full_name(p) == "Pat"

QuickActions ==
    {"send_welcome", "send_appointment_reminder", "verify_email", "unknown_action"}

\* ------------------------------------------------------- get_or_create

\* the unique constraint of the OneToOneField patient: a second row for a
\* patient is refused with IntegrityError
InsertWithoutUnique(table, row) ==
    [ok |-> TRUE, table |-> Append(table, row)]

Insert(table, row) ==
    IF \E i \in DOMAIN table : table[i].patient = row.patient
    THEN [ok |-> FALSE, table |-> table]
    ELSE [ok |-> TRUE, table |-> Append(table, row)]

\* objects.get(patient=p): the one row, DoesNotExist ("missing"),
\* MultipleObjectsReturned ("multiple"); db = "error" is a database error
Lookup(table, p, db) ==
    LET m == RowsOf(table, p)
    IN  IF db = "error" THEN [goc |-> "db_error", inst |-> None, db |-> db]
        ELSE IF Len(m) = 1 THEN [goc |-> "found", inst |-> Some(m[1]), db |-> db]
        ELSE IF Len(m) = 0 THEN [goc |-> "missing", inst |-> None, db |-> db]
        ELSE [goc |-> "multiple", inst |-> None, db |-> db]

CreateOrRefetchNoCreate(table, p, organization) ==
    [goc |-> "missing", inst |-> None, table |-> table]

\* the second half of get_or_create, after DoesNotExist: create the row;
\* on IntegrityError fetch the row that is there
CreateOrRefetch(table, p, organization) ==
    LET row == NewPatientEmail(Len(table) + 1, p, organization)
        ins == Insert(table, row)
        again == Lookup(table, p, "ok")
    IN  IF ins.ok
        THEN [goc |-> "created", inst |-> Some(row), table |-> ins.table]
        ELSE [goc |-> IF again.goc = "found" THEN "refetched" ELSE again.goc,
              inst |-> again.inst, table |-> table]

\* ------------------------------------------------------------ requests

\* what a request has done so far: the value its model call returned, whether
\* an exception left the call, the mails handed to the transport and the
\* columns it wrote
NoEffects == [ret |-> None, raised |-> FALSE, mails |-> <<>>, wrote |-> {}]

\* a request in progress: what was asked, by whom, how the database answered
\* the lookup (db), the profile it holds, how get_or_create went, the run of
\* the collaborators its send met (env), what it did, the messages it
\* flashed to the user and what it answers
Request(pc, kind, user, patient, organization, method, action, data, look, did, resp) ==
    [pc |-> pc, kind |-> kind, user |-> user, patient |-> patient,
     organization |-> organization, method |-> method, action |-> action,
     data |-> data, db |-> look.db, goc |-> look.goc, inst |-> look.inst,
     env |-> None, did |-> did, flash |-> <<>>, resp |-> resp]

NotLooked == [goc |-> "", inst |-> None, db |-> ""]

\* a request that ends before it touches the profile
Answered(kind, user, patient, method, action, data, resp) ==
    Request("done", kind, user, patient, 0, method, action, data, NotLooked,
            NoEffects, resp)

\* what a request carries: a POST one of the forms, a GET none
Posted(method, forms) ==
    IF method = "POST" THEN {Some(d) : d \in forms} ELSE {None}

\* messages.success / messages.error: one flashed message
Flash(level, text) == << <<level, text>> >>

\* views.py line 132
PermissionMessage == "You don't have permission to send emails to patients."

\* a request that has run the first half of get_or_create: it goes on to
\* create the row, to act on the row found, or ends with the exception
Looked(kind, user, patient, organization, method, action, data, look) ==
    IF look.goc = "missing"
    THEN Request("create", kind, user, patient, organization, method, action,
                 data, look, NoEffects, <<>>)
    ELSE IF look.goc = "found"
    THEN Request("act", kind, user, patient, organization, method, action,
                 data, look, NoEffects, <<>>)
    ELSE Request("done", kind, user, patient, organization, method, action,
                 data, look, [NoEffects EXCEPT !.raised = TRUE],
                 [status |-> "error"])

\* a request can arrive while the clock runs, and the first free worker
\* takes it
CanBegin(r) ==
    /\ req[r].pc = "idle"
    /\ \A other \in Reqs : other < r => req[other].pc # "idle"
    /\ clock < MaxClock

\* the request arrives: the worker holds it
Begin(r, request) ==
    /\ clock' = clock + 1
    /\ req' = [req EXCEPT ![r] = request]
    /\ UNCHANGED <<rows, shell, templates>>

DbOutcomes == {"ok", "error"}

PatientMethods ==
    {"Patient.send_email", "Patient.send_appointment_reminder",
     "Patient.send_welcome_email", "Patient.send_care_plan_update"}

\* model_extensions.py: patient.send_email(...), patient.send_welcome_email()
\* and the like, called by code that holds the patient; each starts with
\* self.get_email_profile()
CallPatientMethod(r) ==
    /\ CanBegin(r)
    /\ \E kind \in PatientMethods, p \in Patients, db \in DbOutcomes :
        Begin(r, Looked(kind, None, p, PatientOrganization(p), "", "", None,
                        Lookup(rows, p, db)))

\* views.py, PatientEmailEditView: the permission mixin, then get_object
EditViewRequest(r) ==
    /\ CanBegin(r)
    /\ \E user \in Users, p \in Patients, db \in DbOutcomes :
      \E method \in {"GET", "POST"} : \E data \in Posted(method, PostedForms) :
        Begin(r,
            IF ~has_perm(user, CanManage)
            THEN Answered("PatientEmailEditView", Some(user), p, method, "",
                          data, [status |-> "denied"])
            ELSE IF ~PatientVisible(user, p)
            THEN Answered("PatientEmailEditView", Some(user), p, method, "",
                          data, [status |-> "404"])
            ELSE Looked("PatientEmailEditView", Some(user), p,
                        user.organization, method, "", data,
                        Lookup(rows, p, db)))

\* views.py, patient_edit_email_section
EditSectionRequest(r) ==
    /\ CanBegin(r)
    /\ \E user \in Users, p \in Patients, db \in DbOutcomes :
      \E method \in {"GET", "POST"} : \E data \in Posted(method, PostedForms) :
        Begin(r,
            IF ~PatientVisible(user, p)
            THEN Answered("patient_edit_email_section", Some(user), p, method,
                          "", data, [status |-> "404"])
            ELSE Looked("patient_edit_email_section", Some(user), p,
                        user.organization, method, "", data,
                        Lookup(rows, p, db)))

\* views.py, send_patient_email: a GET, or a POST whose SendEmailForm is
\* not valid, renders the form; a valid POST sends
SendViewRequest(r) ==
    /\ CanBegin(r)
    /\ \E user \in Users, p \in Patients, db \in DbOutcomes :
      \E method \in {"GET", "POST"} : \E data \in Posted(method, PostedSends) :
        Begin(r,
            IF ~PatientVisible(user, p)
            THEN Answered("send_patient_email", Some(user), p, method, "",
                          data, [status |-> "404"])
            ELSE IF ~has_perm(user, CanSend)
            THEN [Answered("send_patient_email", Some(user), p, method, "",
                           data, [status |-> "redirect",
                                  flash |-> PermissionMessage])
                    EXCEPT !.flash = Flash("error", PermissionMessage)]
            ELSE IF method = "GET" \/ ~SendEmailForm_is_valid(data[1])
            THEN Answered("send_patient_email", Some(user), p, method, "",
                          data, [status |-> "render"])
            ELSE Looked("send_patient_email", Some(user), p,
                        PatientOrganization(p), method, "", data,
                        Lookup(rows, p, db)))

\* views.py, ajax_patient_email_quick_actions
QuickActionRequest(r) ==
    /\ CanBegin(r)
    /\ \E user \in Users, p \in Patients, action \in QuickActions,
       db \in DbOutcomes :
        Begin(r,
            IF ~has_perm(user, CanSend)
            THEN Answered("ajax_patient_email_quick_actions", Some(user), p,
                          "POST", action, None,
                          [status |-> "json", success |-> FALSE,
                           error |-> "Permission denied"])
            ELSE IF ~PatientVisible(user, p)
            THEN Answered("ajax_patient_email_quick_actions", Some(user), p,
                          "POST", action, None, [status |-> "404"])
            ELSE IF action \notin
                    {"send_welcome", "send_appointment_reminder", "verify_email"}
            THEN Answered("ajax_patient_email_quick_actions", Some(user), p,
                          "POST", action, None,
                          [status |-> "json", success |-> FALSE,
                           message |-> "Unknown action"])
            ELSE Looked("ajax_patient_email_quick_actions", Some(user), p,
                        PatientOrganization(p), "POST", action, None,
                        Lookup(rows, p, db)))

\* template_hooks.py, PatientTemplateHooks.patient_edit_email_section: the
\* patient comes from the page context; any failure of get_or_create is
\* swallowed and the profile is then absent
EditHookRequest(r) ==
    /\ CanBegin(r)
    /\ \E user \in Users, patient \in {None} \cup {Some(p) : p \in Patients},
       db \in DbOutcomes :
        Begin(r,
            IF patient = None
            THEN Request("done", "hook.patient_edit_email_section", Some(user),
                         0, 0, "", "", None, NotLooked, NoEffects,
                         [status |-> "empty"])
            ELSE LET look == Lookup(rows, patient[1], db)
                 IN  Request(IF look.goc = "missing" THEN "create" ELSE "act",
                             "hook.patient_edit_email_section", Some(user),
                             patient[1], user.organization, "", "", None,
                             look, NoEffects, <<>>))

\* template_hooks.py, PatientTemplateHooks.patient_detail_email_section: the
\* profile is read through patient.email_profile; a missing profile, or any
\* other failure of the read, gives None
DetailHookRequest(r) ==
    /\ CanBegin(r)
    /\ \E user \in Users, patient \in {None} \cup {Some(p) : p \in Patients},
       db \in DbOutcomes :
        Begin(r,
            IF patient = None
            THEN Request("done", "hook.patient_detail_email_section",
                         Some(user), 0, 0, "", "", None, NotLooked, NoEffects,
                         [status |-> "empty"])
            ELSE LET look == Lookup(rows, patient[1], db)
                 IN  Request("done", "hook.patient_detail_email_section",
                             Some(user), patient[1], 0, "", "", None, look,
                             NoEffects,
                             [status |-> "render",
                              email_profile |-> look.inst,
                              has_email_permission |-> has_perm(user, CanManage)]))

\* template_hooks.py, PatientTemplateHooks.patient_detail_sidebar_email_widget:
\* the same read, and has_email from the preferred address; the user is not
\* consulted
SidebarHookRequest(r) ==
    /\ CanBegin(r)
    /\ \E patient \in {None} \cup {Some(p) : p \in Patients}, db \in DbOutcomes :
        Begin(r,
            IF patient = None
            THEN Request("done", "hook.patient_detail_sidebar_email_widget",
                         None, 0, 0, "", "", None, NotLooked, NoEffects,
                         [status |-> "empty"])
            ELSE LET look == Lookup(rows, patient[1], db)
                 IN  Request("done", "hook.patient_detail_sidebar_email_widget",
                             None, patient[1], 0, "", "", None, look, NoEffects,
                             [status |-> "render",
                              email_profile |-> look.inst,
                              has_email |->
                                  /\ look.inst # None
                                  /\ TruthyStr(get_preferred_email(look.inst[1]))]))

\* the second half of get_or_create
Create(r) ==
    /\ req[r].pc = "create"
    /\ LET got == CreateOrRefetch(rows, req[r].patient, req[r].organization)
           swallowed == req[r].kind = "hook.patient_edit_email_section"
       IN  /\ rows' = got.table
           /\ req' = [req EXCEPT ![r] =
                 IF got.inst # None \/ swallowed
                 THEN [req[r] EXCEPT !.pc = "act", !.goc = got.goc,
                                     !.inst = got.inst]
                 ELSE [req[r] EXCEPT !.pc = "done", !.goc = got.goc,
                                     !.did = [NoEffects EXCEPT !.raised = TRUE],
                                     !.resp = [status |-> "error"]]]
    /\ UNCHANGED <<clock, shell, templates>>

\* the model call a request makes once it holds the profile
ModelCall(q, env) ==
    LET self == q.inst[1]
    IN  IF q.kind = "Patient.send_email"
        THEN send_email(self, "Hi", Some(<<"Body">>), None, None, None, None,
                        clock, env)
        ELSE IF q.kind = "send_patient_email"
        THEN send_email(self, q.data[1].subject, Some(q.data[1].message),
                        Some(q.data[1].html_message), None, None, None,
                        clock, env)
        ELSE IF \/ q.kind = "Patient.send_appointment_reminder"
                \/ q.action = "send_appointment_reminder"
        THEN send_appointment_reminder(self, Some("2024-01-15"), None, clock, env)
        ELSE IF \/ q.kind = "Patient.send_welcome_email"
                \/ q.action = "send_welcome"
        THEN send_welcome_email(self, clock, env)
        ELSE IF q.kind = "Patient.send_care_plan_update"
        THEN send_care_plan_update(self, Some("new exercises"), clock, env)
        ELSE send_email(self, "Please verify your email address", None, None,
                        Some("patient_email_plugin/emails/verify_email.html"),
                        Some(<<>>), None, clock, env)

SendResponseAlwaysSuccess(q, success) ==
    IF q.kind = "send_patient_email"
    THEN [status |-> "redirect",
          flash |-> IF success
                    THEN "Email sent successfully to " \o get_full_name(q.patient)
                    ELSE "Failed to send email. Please check patient's email configuration."]
    ELSE IF q.kind = "ajax_patient_email_quick_actions"
    THEN [status |-> "json", success |-> TRUE,
          message |->
            IF q.action = "send_welcome" THEN "Welcome email sent"
            ELSE IF q.action = "send_appointment_reminder"
            THEN "Appointment reminder sent"
            ELSE "Verification email sent"]
    ELSE <<>>

\* views.py lines 144-154 and 176-211: what the view answers after the call
SendResponse(q, success) ==
    IF q.kind = "send_patient_email"
    THEN [status |-> "redirect",
          flash |-> IF success
                    THEN "Email sent successfully to " \o get_full_name(q.patient)
                    ELSE "Failed to send email. Please check patient's email configuration."]
    ELSE IF q.kind = "ajax_patient_email_quick_actions"
    THEN [status |-> "json", success |-> success,
          message |->
            IF q.action = "send_welcome"
            THEN IF success THEN "Welcome email sent"
                 ELSE "Failed to send welcome email"
            ELSE IF q.action = "send_appointment_reminder"
            THEN IF success THEN "Appointment reminder sent"
                 ELSE "Failed to send appointment reminder"
            ELSE IF success THEN "Verification email sent"
                 ELSE "Failed to send verification email"]
    ELSE <<>>

\* views.py lines 144-152: the send view flashes the outcome to the user;
\* the quick actions and the patient methods flash nothing
SendFlash(q, success) ==
    IF q.kind = "send_patient_email"
    THEN Flash(IF success THEN "success" ELSE "error",
               SendResponse(q, success).flash)
    ELSE <<>>

SendingKinds ==
    PatientMethods \cup {"send_patient_email", "ajax_patient_email_quick_actions"}

EditingKinds == {"PatientEmailEditView", "patient_edit_email_section"}

\* the request sends: the model call on the profile it holds
Send(r) ==
    /\ req[r].pc = "act"
    /\ req[r].kind \in SendingKinds
    /\ \E env \in HandlerEnvs : \E out \in {ModelCall(req[r], env)} :
            /\ rows' = IF out.saved = {} THEN rows
                       ELSE Save(rows, out.self, out.saved)
            /\ req' = [req EXCEPT ![r] =
                  [req[r] EXCEPT
                      !.pc = "done", !.inst = Some(out.self),
                      !.env = Some(env),
                      !.did = [ret |-> out.ret, raised |-> out.raised,
                               mails |-> out.mails, wrote |-> out.saved],
                      !.flash = IF out.raised THEN <<>>
                                ELSE SendFlash(req[r], out.ret[1]),
                      !.resp = IF out.raised THEN [status |-> "error"]
                               ELSE SendResponse(req[r], out.ret[1])]]
    /\ UNCHANGED <<clock, shell, templates>>

\* views.py lines 98-122 (and UpdateView): POST validates and saves the bound
\* form, GET renders it.  Validating copies the cleaned fields onto the bound
\* instance (ModelForm._post_clean) whether or not clean() raised; only a
\* valid form is saved.  After the save PatientEmailEditView asks for its
\* success URL: the view sets none and PatientEmail defines no
\* get_absolute_url, so ImproperlyConfigured leaves the view
Edit(r) ==
    /\ req[r].pc = "act"
    /\ req[r].kind \in EditingKinds
    /\ LET q == req[r]
           json == q.kind = "patient_edit_email_section"
       IN  IF q.method = "POST" /\ is_valid(q.data[1])
           THEN /\ rows' = form_save(rows, q.inst[1], q.data[1])
                /\ req' = [req EXCEPT ![r] =
                      [q EXCEPT
                          !.pc = "done",
                          !.inst = Some(construct_instance(q.inst[1], q.data[1])),
                          !.did = [NoEffects EXCEPT !.wrote = Columns,
                                                    !.raised = ~json],
                          !.flash = IF json
                                    THEN Flash("success",
                                               "Email settings updated successfully.")
                                    ELSE <<>>,
                          !.resp = IF json
                                   THEN [status |-> "json", success |-> TRUE]
                                   ELSE [status |-> "error"]]]
           ELSE /\ rows' = rows
                /\ req' = [req EXCEPT ![r] =
                      [q EXCEPT
                          !.pc = "done",
                          !.inst = IF q.method = "POST"
                                   THEN Some(construct_instance(q.inst[1],
                                                                q.data[1]))
                                   ELSE q.inst,
                          !.resp = IF q.method = "POST"
                                   THEN IF json
                                        THEN [status |-> "json", success |-> FALSE,
                                              errors |-> clean(q.data[1])]
                                        ELSE [status |-> "render",
                                              errors |-> clean(q.data[1])]
                                   ELSE [status |-> "render"]]]
    /\ UNCHANGED <<clock, shell, templates>>

\* template_hooks.py lines 79-93: the fragment is rendered with the profile
\* and a form bound to it, or with neither
RenderEditHook(r) ==
    /\ req[r].pc = "act"
    /\ req[r].kind = "hook.patient_edit_email_section"
    /\ req' = [req EXCEPT ![r] =
          [req[r] EXCEPT !.pc = "done",
                         !.resp = [status |-> "render",
                                   email_profile |-> req[r].inst,
                                   email_form |-> req[r].inst # None]]]
    /\ UNCHANGED <<rows, clock, shell, templates>>

\* the request is over; its worker takes the next one
Finish(r) ==
    /\ req[r].pc = "done"
    /\ req' = [req EXCEPT ![r] = [pc |-> "idle"]]
    /\ UNCHANGED <<rows, clock, shell, templates>>

NoShell == [pc |-> "none", inst |-> None, call |-> NoCall]

Init ==
    /\ rows = <<>>
    /\ clock = 0
    /\ shell = NoShell
    /\ req = IdleReqs
    /\ templates = <<>>

Next ==
    \E r \in Reqs :
        \/ CallPatientMethod(r)
        \/ EditViewRequest(r)
        \/ EditSectionRequest(r)
        \/ SendViewRequest(r)
        \/ QuickActionRequest(r)
        \/ EditHookRequest(r)
        \/ DetailHookRequest(r)
        \/ SidebarHookRequest(r)
        \/ Create(r)
        \/ Send(r)
        \/ Edit(r)
        \/ RenderEditHook(r)
        \/ Finish(r)

Spec == Init /\ [][Next]_vars

\* meanwhile, between the caller's calls or while one waits, another
\* request posts the edit form for the same patient (views.py,
\* patient_edit_email_section): it loads the row (lines 94-96) ...
ConcurrentEditLoad ==
    /\ shell.pc \in {"idle", "sending"}
    /\ req[1].pc = "idle"
    /\ \E data \in ConcurrentForms :
          req' = [req EXCEPT ![1] =
                     Looked("patient_edit_email_section",
                            Some([perms |-> {CanManage, CanSend},
                                  organization |-> shell.inst.organization]),
                            shell.inst.patient, shell.inst.organization,
                            "POST", "", Some(data),
                            Lookup(rows, shell.inst.patient, "ok"))]
    /\ UNCHANGED <<rows, clock, shell, templates>>

\* ... and later, with nothing held in between, validates and saves the
\* instance it loaded (lines 98-105)
ConcurrentEditSave ==
    /\ shell.pc \in {"idle", "sending"}
    /\ Edit(1)

InitSend ==
    /\ \E p \in LoadedProfiles :
          /\ rows = <<p>>
          /\ shell = [pc |-> "idle", inst |-> p, call |-> NoCall]
    /\ clock = 0
    /\ req = IdleReqs
    /\ templates = <<>>

NextSend ==
    \/ CallSendEmail
    \/ CallSendAppointmentReminder
    \/ CallSendWelcomeEmail
    \/ CallSendCarePlanUpdate
    \/ Returns
    \/ Proceed
    \/ ConcurrentEditLoad
    \/ ConcurrentEditSave
    \/ Finish(1)

SpecSend == InitSend /\ [][NextSend]_vars

\* ------------------------------------------------------- email templates

\* A template name is a sequence of characters, so that lower(), replace()
\* and the stripping of blanks are computed character by character.
Chars == {"W", "e", " "}

NameInputs == UNION {[1..k -> Chars] : k \in 0..MaxNameLen}

\* the primary keys the table hands out
TemplateIds == {1, 2}

\* str.lower()
lower(s) ==
    [i \in 1..Len(s) |-> CASE s[i] = "W" -> "w"
                           [] s[i] = "E" -> "e"
                           [] OTHER -> s[i]]

\* str.replace(old, new) for one-character old and new
replace(s, old, new) ==
    [i \in 1..Len(s) |-> IF s[i] = old THEN new ELSE s[i]]

RECURSIVE lstrip(_)
lstrip(s) ==
    IF s # <<>> /\ Head(s) = " " THEN lstrip(Tail(s)) ELSE s

RECURSIVE rstrip(_)
rstrip(s) ==
    IF s # <<>> /\ s[Len(s)] = " " THEN rstrip(SubSeq(s, 1, Len(s) - 1)) ELSE s

\* the form field generated for the CharField name: the posted value is
\* stripped of leading and trailing blanks before any clean_ method runs
to_python(value) == rstrip(lstrip(value))

\* EmailTemplateForm.clean_name
clean_name(name) ==
    IF name # <<>> THEN replace(lower(name), " ", "_") ELSE name

\* unique=True on name: another row already holds the name; id 0 is an
\* instance that has not been saved yet
NameTaken(table, id, name) ==
    \E i \in DOMAIN table : table[i].name = name /\ table[i].id # id

\* Model.save(): update the row with this primary key, or insert the
\* instance under the next primary key; a name that another row holds is
\* refused with IntegrityError
EmailTemplate_save(table, id, name) ==
    IF NameTaken(table, id, name)
    THEN [saved |-> FALSE, raised |-> TRUE, id |-> id, table |-> table]
    ELSE IF id = 0
    THEN [saved |-> TRUE, raised |-> FALSE, id |-> Len(table) + 1,
          table |-> Append(table, [id |-> Len(table) + 1, name |-> name])]
    ELSE [saved |-> TRUE, raised |-> FALSE, id |-> id,
          table |-> [i \in DOMAIN table |->
                        IF table[i].id = id
                        THEN [table[i] EXCEPT !.name = name]
                        ELSE table[i]]]

\* EmailTemplateForm(data, instance).is_valid(): the name is required,
\* cleaned by clean_name and validated as unique against the table
EmailTemplateForm_is_valid(table, id, name) ==
    /\ to_python(name) # <<>>
    /\ ~NameTaken(table, id, clean_name(to_python(name)))

\* EmailTemplateForm.save(): the instance is saved under the cleaned name
EmailTemplateForm_save(table, id, name) ==
    EmailTemplate_save(table, id, clean_name(to_python(name)))

\* a form that passed is_valid() for a new template and is not saved yet
PendingInsert ==
    IF shell.pc = "validated" /\ shell.call.args.id = 0 THEN 1 ELSE 0

\* the template a save is for: one on file, or a new one (0) while the table
\* has a primary key left
SaveTargets ==
    {templates[i].id : i \in DOMAIN templates}
        \cup {0 : id \in {k \in TemplateIds : k > Len(templates) + PendingInsert}}

TemplateCall(op, id, name, out) ==
    [op |-> op, args |-> [id |-> id, name |-> name],
     out |-> [saved |-> out.saved, raised |-> out.raised, id |-> out.id]]

\* a template is posted to EmailTemplateForm: is_valid() runs; an invalid
\* form is shown again with its errors
ValidateTemplateForm ==
    /\ shell.pc = "idle"
    /\ \E id \in SaveTargets, name \in NameInputs :
          shell' =
              IF EmailTemplateForm_is_valid(templates, id, name)
              THEN [pc |-> "validated", inst |-> None,
                    call |-> [op |-> "EmailTemplateForm.save",
                              args |-> [id |-> id, name |-> name]]]
              ELSE [pc |-> "returned", inst |-> None,
                    call |-> TemplateCall("EmailTemplateForm.save", id, name,
                                 [saved |-> FALSE, raised |-> FALSE, id |-> id])]
    /\ UNCHANGED <<rows, clock, req, templates>>

\* the valid form is saved, against the table as it is by then
SaveTemplateForm ==
    /\ shell.pc = "validated"
    /\ LET c == shell.call
           out == EmailTemplateForm_save(templates, c.args.id, c.args.name)
       IN  /\ templates' = out.table
           /\ shell' = [pc |-> "returned", inst |-> None,
                        call |-> TemplateCall(c.op, c.args.id, c.args.name, out)]
    /\ UNCHANGED <<rows, clock, req>>

\* a template is created or edited through the model: objects.create(),
\* save(), a fixture or the admin's default form
SaveTemplateModel ==
    /\ shell.pc = "idle"
    /\ \E id \in SaveTargets, name \in NameInputs :
          LET out == EmailTemplate_save(templates, id, name)
          IN  /\ templates' = out.table
              /\ shell' = [pc |-> "returned", inst |-> None,
                           call |-> TemplateCall("EmailTemplate.save", id, name, out)]
    /\ UNCHANGED <<rows, clock, req>>

\* another caller saves a template between the form's is_valid() and save()
ConcurrentTemplateSave ==
    /\ shell.pc = "validated"
    /\ \E id \in SaveTargets, name \in NameInputs :
          templates' = EmailTemplate_save(templates, id, name).table
    /\ UNCHANGED <<rows, clock, shell, req>>

InitTemplate ==
    /\ rows = <<>>
    /\ clock = 0
    /\ shell = [pc |-> "idle", inst |-> None, call |-> NoCall]
    /\ req = IdleReqs
    /\ templates = <<>>

NextTemplate ==
    \/ ValidateTemplateForm
    \/ SaveTemplateForm
    \/ SaveTemplateModel
    \/ ConcurrentTemplateSave
    \/ Proceed

SpecTemplate == InitTemplate /\ [][NextTemplate]_vars

\* ------------------------------------------------------------ properties

\* a call on the loaded instance has returned
Returned == shell.pc = "returned"

\* the profile passes the eligibility gate as the specification words it
Eligible(p) ==
    /\ p.email_notifications_enabled
    /\ ~p.email_bounced
    /\ (TruthyStr(p.email) \/ TruthyStr(p.secondary_email))

\* the call was given a template name and a context mapping
WithTemplate(c) ==
    /\ c.op = "send_email"
    /\ TruthyStr(c.args.template_name)
    /\ c.args.context # None

\* C1: whenever notifications are disabled, or the bounce flag is set, or
\* both addresses are empty, send returns false, raises nothing and invokes
\* neither the mail transport nor the template renderer, whatever the other
\* fields and arguments are.
C1_GateSkips ==
    Returned =>
        LET c == shell.call
            p == c.before
        IN  (\/ ~p.email_notifications_enabled
             \/ p.email_bounced
             \/ (~TruthyStr(p.email) /\ ~TruthyStr(p.secondary_email)))
            => /\ c.out.ret = Some(FALSE)
               /\ ~c.out.raised
               /\ c.out.mails = <<>>
               /\ c.out.renders = <<>>

\* a bounced profile that is otherwise eligible was sent a template and a
\* context while the transport would have accepted the message
C1_Witness ==
    /\ Returned
    /\ WithTemplate(shell.call)
    /\ shell.call.before.email_bounced
    /\ shell.call.before.email_notifications_enabled
    /\ shell.call.before.email = Some("a@x.com")
    /\ shell.call.env.transport = "one"
    /\ ~shell.call.env.render_raises
    /\ shell.call.out.ret = Some(FALSE)

\* the transport was invoked exactly once, for the one preferred address,
\* with the subject, the sender and the plain-text body of the call
DeliveredAsAsked(c) ==
    /\ Len(c.out.mails) = 1
    /\ c.out.mails[1].recipient_list = <<get_preferred_email(c.before)[1]>>
    /\ c.out.mails[1].subject = c.args.subject
    /\ c.out.mails[1].from_email = c.args.from_email
    /\ TruthyText(c.args.message)
          => c.out.mails[1].message = c.args.message[1]
    /\ (~TruthyText(c.args.message) /\ ~WithTemplate(c))
          => c.out.mails[1].message = <<>>

\* C2: for an eligible profile and a transport that accepts the
\* message, send returns true and the transport is invoked exactly once with
\* the preferred address as only recipient, the given subject, the plain-text
\* body (empty if none) and the given sender.
C2_AsStated ==
    (/\ Returned
     /\ shell.call.op = "send_email"
     /\ Eligible(shell.call.before)
     /\ shell.call.env.transport = "one")
    => /\ shell.call.out.ret = Some(TRUE)
       /\ DeliveredAsAsked(shell.call)

\* C3: after a call that returned true, last_email_sent of the profile is a
\* time at or after the start of the call; after a call that returned false
\* it has the value it had before the call, on the instance and in storage.
C3_LastEmailSent ==
    Returned =>
        LET c == shell.call
        IN  /\ c.out.ret = Some(TRUE) =>
                 /\ shell.inst.last_email_sent # None
                 /\ shell.inst.last_email_sent[1] >= c.start
                 /\ rows[1].last_email_sent = shell.inst.last_email_sent
            /\ c.out.ret = Some(FALSE) =>
                 /\ shell.inst.last_email_sent = c.before.last_email_sent
                 /\ rows[1].last_email_sent = c.stored_before[1].last_email_sent

\* some fault or refusal met the call after the gate let it through
Faulted(c) ==
    /\ Eligible(c.before)
    /\ \/ Len(c.out.renders) = 1 /\ c.env.render_raises
       \/ c.env.transport \in {"raise", "zero"}
       \/ c.env.save_raises

\* C4: send never lets an exception out: when the renderer raises, the
\* transport raises or accepts no recipient, or saving last_email_sent
\* raises, send returns false.
C4_NoExceptionEscapes ==
    Returned =>
        /\ ~shell.call.out.raised
        /\ Faulted(shell.call) => shell.call.out.ret = Some(FALSE)

\* the address the specification's cascade names for a profile
CascadeHolds(p, address) ==
    LET sec == TruthyStr(p.secondary_email)
        pri == TruthyStr(p.email)
    IN  /\ (p.preferred_email = "secondary" /\ sec) => address = p.secondary_email
        /\ (~(p.preferred_email = "secondary" /\ sec) /\ pri) => address = p.email
        /\ (~pri /\ sec) => address = p.secondary_email
        /\ (~pri /\ ~sec) => ~TruthyStr(address)

\* C7: get_preferred_email returns the secondary address when it is preferred
\* and set, otherwise the primary address when set, otherwise the secondary
\* address when set, otherwise no address; a mail that is sent goes to it.
C7_PreferredEmail ==
    /\ CascadeHolds(shell.inst, get_preferred_email(shell.inst))
    /\ (Returned /\ shell.call.out.mails # <<>>) =>
          CascadeHolds(shell.call.before,
                       Some(shell.call.out.mails[1].recipient_list[1]))

\* both addresses set, the secondary preferred, and the mail went there
C7_Witness ==
    /\ Returned
    /\ shell.call.before.preferred_email = "secondary"
    /\ shell.call.before.email = Some("a@x.com")
    /\ shell.call.before.secondary_email = Some("b@x.com")
    /\ shell.call.out.mails # <<>>
    /\ shell.call.out.mails[1].recipient_list = <<"b@x.com">>

\* C8: a send that succeeds writes the last_email_sent column only: every
\* other column of the stored row keeps the value storage held when the send
\* saved, the values another request wrote after the sender had loaded the
\* profile or while the send was under way included.
C8_OnlyLastEmailSentSaved ==
    (Returned /\ shell.call.out.ret = Some(TRUE)) =>
        /\ \A f \in FieldNames \ {"last_email_sent"} :
              rows[1][f] = shell.call.stored[1][f]
        /\ rows[1].last_email_sent = Some(shell.call.start + 1)

\* the send succeeded on an instance that held the address the table had
\* when the call began; while the call waited another request changed the
\* address and switched notifications off, and the table keeps both
C8_Witness ==
    /\ Returned
    /\ shell.call.out.ret = Some(TRUE)
    /\ shell.call.before.email = Some("a@x.com")
    /\ shell.call.before.email_notifications_enabled
    /\ shell.call.stored_before[1].email = Some("a@x.com")
    /\ shell.call.stored_before[1].email_notifications_enabled
    /\ rows[1].email = Some("new@x.com")
    /\ ~rows[1].email_notifications_enabled
    /\ rows[1].last_email_sent # None

\* C9: with a template name and a context mapping (an empty one counts) the
\* renderer, reached unless reading the patient for the context raised, is
\* handed the context with the patient and the profile added,
\* the html body given to the transport is the rendered output and, when no
\* message was given, the plain-text body is the rendered output without its
\* markup; a non-empty message is handed to the transport unchanged.
C9_TemplateRendering ==
    (Returned /\ shell.call.op = "send_email" /\ Eligible(shell.call.before)) =>
        LET c == shell.call
        IN  /\ WithTemplate(c) =>
                 /\ Len(c.out.renders) = IF c.env.patient_read # "ok" THEN 0 ELSE 1
                 /\ c.out.renders # <<>> =>
                       /\ c.out.renders[1].template_name = c.args.template_name[1]
                       /\ c.out.renders[1].context.patient = Some(c.before.patient)
                       /\ c.out.renders[1].context.email_profile = Some(c.before.id)
                       /\ DOMAIN c.out.renders[1].context =
                             (DOMAIN c.args.context[1])
                                 \cup {"patient", "email_profile"}
                 /\ c.out.mails # <<>> =>
                       /\ c.out.mails[1].html_message = Some(c.env.html)
                       /\ ~TruthyText(c.args.message) =>
                             /\ c.out.mails[1].message = strip_tags(c.env.html)
                             /\ \A i \in DOMAIN c.out.mails[1].message :
                                   c.out.mails[1].message[i] \notin MarkupTags
            /\ (c.out.mails # <<>> /\ TruthyText(c.args.message)) =>
                  c.out.mails[1].message = c.args.message[1]

\* a template with an empty context and no message: the rendered html had
\* markup around its text and the transport got the text alone
C9_Witness ==
    /\ Returned
    /\ WithTemplate(shell.call)
    /\ shell.call.args.context = Some(<<>>)
    /\ shell.call.args.message = None
    /\ shell.call.env.html = <<"<p>", "Hello", "</p>">>
    /\ shell.call.out.mails # <<>>
    /\ shell.call.out.mails[1].message = <<"Hello">>
    /\ shell.call.out.mails[1].html_message = Some(<<"<p>", "Hello", "</p>">>)

\* the Patient-level operations derived from send
DerivedPatientMethods ==
    {"Patient.send_appointment_reminder", "Patient.send_welcome_email",
     "Patient.send_care_plan_update"}

\* C5: a derived operation called through the patient returns the boolean of
\* the underlying send, and every failure on the way, a failure to resolve or
\* create the profile included, comes back as false and is never raised.
C5_DerivedAbsorbFailures ==
    \A r \in Reqs :
        (req[r].pc = "done" /\ req[r].kind \in DerivedPatientMethods) =>
            /\ ~req[r].did.raised
            /\ req[r].did.ret \in {Some(TRUE), Some(FALSE)}

\* the permission each state-changing handler is gated by
RequiredPermission(kind) ==
    IF kind \in {"PatientEmailEditView", "patient_edit_email_section"}
    THEN CanManage
    ELSE CanSend

GatedKinds ==
    {"PatientEmailEditView", "patient_edit_email_section",
     "send_patient_email", "ajax_patient_email_quick_actions"}

\* C6: a request to a state-changing handler by a caller who lacks the
\* handler's permission creates no profile, writes no column and hands
\* nothing to the transport, and the quick-action endpoint answers
\* {success: false, error: "Permission denied"}.
C6_PermissionBeforeMutation ==
    \A r \in Reqs :
        (/\ req[r].pc # "idle"
         /\ req[r].kind \in GatedKinds
         /\ ~has_perm(req[r].user[1], RequiredPermission(req[r].kind)))
        => /\ req[r].goc # "created"
           /\ req[r].did.wrote = {}
           /\ req[r].did.mails = <<>>
           /\ (req[r].pc = "done"
               /\ req[r].kind = "ajax_patient_email_quick_actions")
              => req[r].resp = [status |-> "json", success |-> FALSE,
                                error |-> "Permission denied"]

\* the hook renderers that read patient.email_profile and never call
\* get_or_create
ReadingHooks ==
    {"hook.patient_detail_email_section",
     "hook.patient_detail_sidebar_email_widget"}

\* the request has been through get_or_create without a database error
ThroughGetOrCreate(q) ==
    /\ q.pc \in {"act", "done"}
    /\ q.kind \notin ReadingHooks
    /\ q.goc \notin {"", "db_error"}

\* C10: however the first-access get_or_create calls for a patient
\* interleave, the patient has at most one profile row at every moment, and
\* every caller that is through get_or_create holds that row: it found it,
\* created it, or lost the race and fetched it again.
C10_OneProfilePerPatient ==
    /\ \A p \in Patients : Len(RowsOf(rows, p)) <= 1
    /\ \A r \in Reqs :
          (req[r].pc # "idle" /\ ThroughGetOrCreate(req[r])) =>
              /\ req[r].goc \in {"found", "created", "refetched"}
              /\ req[r].inst # None
              /\ Len(RowsOf(rows, req[r].patient)) = 1
              /\ req[r].inst[1].id = RowsOf(rows, req[r].patient)[1].id

\* two callers raced: one created the row, the other hit the unique
\* constraint and fetched the same row
C10_Witness ==
    \E r1, r2 \in Reqs :
        /\ req[r1].pc # "idle" /\ req[r2].pc # "idle"
        /\ req[r1].goc = "created"
        /\ req[r2].goc = "refetched"
        /\ req[r1].kind = "hook.patient_edit_email_section"
        /\ req[r2].kind \in PatientMethods
        /\ req[r1].inst[1].id = req[r2].inst[1].id

\* C11: a profile created by any get_or_create path (get_email_profile, the
\* edit view, the edit-section view, the edit hook) has the default field
\* values and the organization of the patient it belongs to, whoever the
\* acting user is.
C11_CreatedWithPatientOrganization ==
    /\ \A i \in DOMAIN rows :
          rows[i].organization = PatientOrganization(rows[i].patient)
    /\ \A r \in Reqs :
          (req[r].pc = "act" /\ req[r].goc = "created") =>
              req[r].inst[1] =
                  NewPatientEmail(req[r].inst[1].id, req[r].patient,
                                  PatientOrganization(req[r].patient))

\* the submission names an empty address as preferred, or enables
\* notifications with no address at all
Rejectable(d) ==
    \/ d.preferred_email = "primary" /\ ~TruthyStr(d.email)
    \/ d.preferred_email = "secondary" /\ ~TruthyStr(d.secondary_email)
    \/ /\ d.email_notifications_enabled
       /\ ~TruthyStr(d.email)
       /\ ~TruthyStr(d.secondary_email)

\* the preferred address of the profile is the non-empty address that its
\* preferred_email names
NamedAddressPreferred(p) ==
    LET named == IF p.preferred_email = "primary" THEN p.email
                 ELSE p.secondary_email
    IN  TruthyStr(named) /\ get_preferred_email(p) = named

\* C12: an edit submission whose preferred address is empty, or that enables
\* notifications with both addresses empty, is answered with validation
\* errors and writes nothing; every profile saved through the edit form, and
\* so every stored profile that has an address, prefers the non-empty
\* address its preferred_email names.
C12_InvalidEditRejected ==
    /\ \A r \in Reqs :
          (/\ req[r].pc = "done"
           /\ req[r].kind \in EditingKinds
           /\ req[r].method = "POST"
           /\ req[r].inst # None)
          => /\ Rejectable(req[r].data[1]) =>
                   /\ req[r].did.wrote = {}
                   /\ "errors" \in DOMAIN req[r].resp
                   /\ req[r].resp.errors # None
             /\ req[r].did.wrote # {} => NamedAddressPreferred(req[r].inst[1])
    /\ \A i \in DOMAIN rows :
          (TruthyStr(rows[i].email) \/ TruthyStr(rows[i].secondary_email))
             => NamedAddressPreferred(rows[i])

\* a profile saved with a primary address was then posted, by two requests,
\* a form that prefers the secondary address and gives none and a form that
\* prefers the primary address and gives only a secondary one: each is
\* answered with its error, each bound instance carries the posted fields,
\* and the stored profile is as it was saved
C12_Witness ==
    \E r1, r2 \in Reqs :
        /\ req[r1].pc = "done"
        /\ req[r1].kind = "patient_edit_email_section"
        /\ req[r1].method = "POST"
        /\ req[r1].data # None
        /\ req[r1].data[1].preferred_email = "secondary"
        /\ req[r1].data[1].secondary_email = None
        /\ req[r1].resp = [status |-> "json", success |-> FALSE,
                           errors |-> Some("Secondary email address is required when it's set as preferred.")]
        /\ req[r1].did.wrote = {}
        /\ req[r1].inst[1].preferred_email = "secondary"
        /\ req[r2].pc = "done"
        /\ req[r2].kind = "patient_edit_email_section"
        /\ req[r2].method = "POST"
        /\ req[r2].data # None
        /\ req[r2].data[1].preferred_email = "primary"
        /\ req[r2].data[1].email = None
        /\ req[r2].data[1].secondary_email = Some("b@x.com")
        /\ req[r2].resp = [status |-> "json", success |-> FALSE,
                           errors |-> Some("Primary email address is required when it's set as preferred.")]
        /\ req[r2].did.wrote = {}
        /\ req[r2].inst[1].secondary_email = Some("b@x.com")
        /\ Len(rows) = 1
        /\ rows[1].email = Some("a@x.com")
        /\ rows[1].secondary_email = None
        /\ rows[1].preferred_email = "primary"

\* the quick actions that map to a send operation
MappedActions == {"send_welcome", "send_appointment_reminder", "verify_email"}

\* a quick-action request of a caller who holds the send permission and can
\* see the patient
AuthorizedQuickAction(q) ==
    /\ q.pc = "done"
    /\ q.kind = "ajax_patient_email_quick_actions"
    /\ has_perm(q.user[1], CanSend)
    /\ PatientVisible(q.user[1], q.patient)

\* C13: for an authorized caller of the quick-action endpoint, a mapped action
\* whose send operation returned is answered with a {success, message} pair
\* whose success is the boolean the operation returned (when the operation
\* raised instead of returning, the request ends with that exception and
\* nothing was written); any other action name is answered with success false and
\* the message "Unknown action", with no mail handed to the transport, no
\* profile looked up or created, and nothing written.
C13_QuickActionAnswer ==
    \A r \in Reqs :
        AuthorizedQuickAction(req[r]) =>
            IF req[r].action \in MappedActions
            THEN IF req[r].did.raised
                 THEN /\ req[r].did.ret = None
                      /\ req[r].did.wrote = {}
                      /\ req[r].resp = [status |-> "error"]
                 ELSE /\ req[r].did.ret \in {Some(TRUE), Some(FALSE)}
                      /\ DOMAIN req[r].resp = {"status", "success", "message"}
                      /\ req[r].resp.status = "json"
                      /\ req[r].resp.success = req[r].did.ret[1]
            ELSE /\ req[r].resp = [status |-> "json", success |-> FALSE,
                                   message |-> "Unknown action"]
                 /\ req[r].did = NoEffects
                 /\ req[r].goc = ""
                 /\ req[r].inst = None

\* one worker has answered a welcome mail that was sent, the other an
\* unknown action, with the stored profile as the send left it
C13_Witness ==
    /\ AuthorizedQuickAction(req[1])
    /\ req[1].action = "send_welcome"
    /\ req[1].did.ret = Some(TRUE)
    /\ req[1].did.mails # <<>>
    /\ req[1].resp = [status |-> "json", success |-> TRUE,
                      message |-> "Welcome email sent"]
    /\ AuthorizedQuickAction(req[2])
    /\ req[2].action = "unknown_action"
    /\ req[2].resp.message = "Unknown action"
    /\ rows = <<req[1].inst[1]>>

\* the name converted to lowercase with every space replaced by an underscore
Normalized(name) ==
    [i \in 1..Len(name) |->
        IF name[i] = " " THEN "_"
        ELSE CASE name[i] = "W" -> "w" [] name[i] = "E" -> "e" [] OTHER -> name[i]]

\* the stored row of the template with this primary key
TemplateById(id) ==
    templates[CHOOSE i \in DOMAIN templates : templates[i].id = id]

\* C14: whenever a template has been saved, by the form or by the model, its
\* stored name is the input name in lowercase with every space replaced by an
\* underscore, and normalizing that stored name again leaves it as it is.
C14_NameNormalizedOnSave ==
    (/\ shell.pc = "returned"
     /\ shell.call.op \in {"EmailTemplateForm.save", "EmailTemplate.save"}
     /\ shell.call.out.saved)
    => /\ TemplateById(shell.call.out.id).name = Normalized(shell.call.args.name)
       /\ Normalized(TemplateById(shell.call.out.id).name)
              = TemplateById(shell.call.out.id).name

HookKinds == ReadingHooks \cup {"hook.patient_edit_email_section"}

\* what C15 says of every hook renderer without a patient, and of the detail
\* and sidebar renderers with one
HooksReadOnly(q) ==
    /\ (q.pc = "done" /\ q.kind \in HookKinds /\ q.patient = 0) =>
          /\ q.resp = [status |-> "empty"]
          /\ q.did = NoEffects
          /\ q.goc = ""
    /\ (q.pc = "done" /\ q.kind \in ReadingHooks /\ q.patient # 0) =>
          /\ q.resp.status = "render"
          /\ q.did = NoEffects
          /\ q.goc \in {"found", "missing", "db_error"}
          /\ q.goc = "missing" => q.resp.email_profile = None

\* the edit renderer has rendered the fragment for a patient
EditHookRendered(q) ==
    /\ q.pc = "done"
    /\ q.kind = "hook.patient_edit_email_section"
    /\ q.patient # 0

\* C15 as stated: every hook renderer without a patient gives the empty
\* fragment, raises nothing and creates nothing; the detail and sidebar
\* renderers never create a profile and pass a missing one as absent; after
\* the edit renderer has rendered, the patient has exactly one profile.
C15_AsStated ==
    \A r \in Reqs :
        /\ HooksReadOnly(req[r])
        /\ EditHookRendered(req[r]) => Len(RowsOf(rows, req[r].patient)) = 1

\* C15, amended: as stated, except that the edit renderer leaves the patient
\* with exactly one profile, which it passes to the fragment with a form,
\* only when resolving the profile did not fail; a failure is swallowed and
\* the fragment is rendered with neither profile nor form.
C15_HookRenderers ==
    \A r \in Reqs :
        /\ HooksReadOnly(req[r])
        /\ EditHookRendered(req[r]) =>
              IF req[r].goc = "db_error"
              THEN /\ req[r].resp.email_profile = None
                   /\ ~req[r].resp.email_form
              ELSE /\ Len(RowsOf(rows, req[r].patient)) = 1
                   /\ req[r].resp.email_profile # None
                   /\ req[r].resp.email_profile[1].id
                          = RowsOf(rows, req[r].patient)[1].id
                   /\ req[r].resp.email_form

\* the detail renderer found no profile and passed None, then the edit
\* renderer created the one profile the patient has
C15_Witness ==
    /\ req[1].pc = "done"
    /\ req[1].kind = "hook.patient_detail_email_section"
    /\ req[1].goc = "missing"
    /\ req[1].resp.status = "render"
    /\ req[1].resp.email_profile = None
    /\ EditHookRendered(req[2])
    /\ req[2].goc = "created"
    /\ req[2].resp.email_profile = Some(rows[1])
    /\ Len(rows) = 1

\* a request whose send succeeded and stamped last_email_sent
SentAndStamped(q) ==
    /\ q.pc = "done"
    /\ q.kind \in SendingKinds
    /\ q.did.ret = Some(TRUE)
    /\ q.did.wrote = {"last_email_sent"}

\* C16: the last_email_sent written by a successful send stays in storage
\* whatever profile edit is interleaved with it: the stored value is never
\* absent or older than that stamp, so an edit that loaded the row before
\* the send and saves after it does not put its stale value back.
C16_StaleEditKeepsLastEmailSent ==
    \A r \in Reqs :
        SentAndStamped(req[r]) =>
            LET stored == RowById(rows, req[r].inst[1].id)
            IN  /\ stored.last_email_sent # None
                /\ stored.last_email_sent[1] >= req[r].inst[1].last_email_sent[1]

====
